---- MODULE Spec2Model ----
(***************************************************************************)
(* Model of the trading dashboard core: the indicator computation of       *)
(* TradingStrategy.calculate_indicators (src/app.py) and the data-source   *)
(* abstraction, factory and configuration loading (src/data_sources.py).   *)
(*                                                                         *)
(* Series are functions over the positional index 0 .. n-1, as in the      *)
(* source.  float64 values are modelled exactly as extended rationals:     *)
(* a record [k, n, d, s] with k = "num" (the rational n/d, d > 0, in       *)
(* lowest terms), "inf" or "nan"; s is the sign bit (it distinguishes      *)
(* +0.0 from -0.0 and +inf from -inf).  Rounding is not modelled.          *)
(***************************************************************************)
EXTENDS Integers, Sequences, FiniteSets, TLC

\* Bounds of the model.
MaxLen == 4        \* longest close-price sequence
MaxWin == 3        \* largest window / period
PriceSpan == 2     \* close prices range over 10 .. 10 + PriceSpan
MaxRequests == 3   \* number of get_data / validate_connection calls followed

VARIABLES
    \* calculate_indicators: arguments and returned frame
    data, short_ma, long_ma, rsi_period, signals,
    \* DataSourceFactory.create_data_source: arguments and outcome
    source_type, kwargs, created,
    \* application: configuration file, TradingStrategy object, request log
    config_file, strategy, requests, fetch_calls, errors, failed,
    last_fetch, last_result, last_validate

indVars == <<data, short_ma, long_ma, rsi_period, signals>>
facVars == <<source_type, kwargs, created>>
appVars == <<config_file, strategy, requests, fetch_calls, errors, failed,
             last_fetch, last_result, last_validate>>
vars == <<indVars, facVars, appVars>>

None == [k |-> "None"]

----------------------------------------------------------------------------
\* float64 values and arithmetic

Abs(x) == IF x < 0 THEN -x ELSE x

Sgn(x) == IF x < 0 THEN -1 ELSE 1

RECURSIVE GCD(_, _)
GCD(a, b) == IF b = 0 THEN a ELSE GCD(b, a % b)

NaN == [k |-> "nan", n |-> 0, d |-> 1, s |-> 1]

Inf(s) == [k |-> "inf", n |-> 0, d |-> 1, s |-> s]

Zero(s) == [k |-> "num", n |-> 0, d |-> 1, s |-> s]

\* the float n/d, for d # 0
Num(n, d) ==
    IF n = 0 THEN Zero(Sgn(d))
    ELSE LET g == GCD(Abs(n), Abs(d))
             sg == Sgn(n) * Sgn(d)
         IN [k |-> "num", n |-> sg * (Abs(n) \div g), d |-> Abs(d) \div g, s |-> sg]

Float(x) == Num(x, 1)

FNeg(a) ==
    IF a.k = "nan" THEN NaN
    ELSE [k |-> a.k, n |-> -a.n, d |-> a.d, s |-> -a.s]

FAdd(a, b) ==
    IF a.k = "nan" \/ b.k = "nan" THEN NaN
    ELSE IF a.k = "inf" /\ b.k = "inf" THEN (IF a.s = b.s THEN a ELSE NaN)
    ELSE IF a.k = "inf" THEN a
    ELSE IF b.k = "inf" THEN b
    ELSE LET m == a.n * b.d + b.n * a.d
         IN IF m = 0
            THEN Zero(IF a.s = -1 /\ b.s = -1 THEN -1 ELSE 1)
            ELSE Num(m, a.d * b.d)

FSub(a, b) == FAdd(a, FNeg(b))

\* numpy float division: x/0 is +-inf, 0/0 is nan, nothing raises
FDiv(a, b) ==
    IF a.k = "nan" \/ b.k = "nan" THEN NaN
    ELSE IF a.k = "inf" THEN (IF b.k = "inf" THEN NaN ELSE Inf(a.s * b.s))
    ELSE IF b.k = "inf" THEN Zero(a.s * b.s)
    ELSE IF b.n = 0 THEN (IF a.n = 0 THEN NaN ELSE Inf(a.s * b.s))
    ELSE IF a.n = 0 THEN Zero(a.s * b.s)
    ELSE Num(a.n * b.d, a.d * b.n)

\* x > 0 and x < 0; a comparison with nan is False
Gt0(a) == a.k # "nan" /\ a.s = 1 /\ (a.k = "inf" \/ a.n # 0)

Lt0(a) == a.k # "nan" /\ a.s = -1 /\ (a.k = "inf" \/ a.n # 0)

----------------------------------------------------------------------------
\* pandas Series operations used by calculate_indicators

SeriesLen(s) == Cardinality(DOMAIN s)

\* data['Close']: the close prices as a float64 Series
Close(df) == [i \in DOMAIN df |-> Float(df[i])]

\* Series.diff(): the first element has no predecessor
Diff(s) == [i \in DOMAIN s |-> IF i = 0 THEN NaN ELSE FSub(s[i], s[i-1])]

\* delta.where(delta > 0, 0): keeps the values where the condition is True,
\* puts 0 elsewhere (also where delta is nan, the comparison being False)
WherePos(s) == [i \in DOMAIN s |-> IF Gt0(s[i]) THEN s[i] ELSE Zero(1)]

WhereNeg(s) == [i \in DOMAIN s |-> IF Lt0(s[i]) THEN s[i] ELSE Zero(1)]

SNeg(s) == [i \in DOMAIN s |-> FNeg(s[i])]

RECURSIVE WindowSum(_, _, _)
WindowSum(s, lo, hi) ==
    IF hi < lo THEN Zero(1) ELSE FAdd(WindowSum(s, lo, hi - 1), s[hi])

\* Series.rolling(window).mean() with min_periods = window: nan until the
\* window holds `window` non-nan observations.  zs is the sign pandas gives
\* to the mean of a window of -0.0 values (it differs between versions).
RollingMean_minp1(s, window, zs) ==
    [i \in DOMAIN s |->
        LET lo == IF i - window + 1 < 0 THEN 0 ELSE i - window + 1
        IN FDiv(WindowSum(s, lo, i), Float(i - lo + 1))]

RollingMean(s, window, zs) ==
    [i \in DOMAIN s |->
        IF i < window - 1 \/ \E j \in (i - window + 1) .. i : s[j].k = "nan"
        THEN NaN
        ELSE IF \A j \in (i - window + 1) .. i : s[j] = Zero(-1)
        THEN Zero(zs)
        ELSE FDiv(WindowSum(s, i - window + 1, i), Float(window))]

Gain(delta, p, zs) == RollingMean(WherePos(delta), p, zs)

Loss(delta, p, zs) == RollingMean(SNeg(WhereNeg(delta)), p, zs)

RS_inverted(gain, loss) == [i \in DOMAIN gain |-> FDiv(loss[i], gain[i])]

\* rs = gain / loss, elementwise
RS(gain, loss) == [i \in DOMAIN gain |-> FDiv(gain[i], loss[i])]

RSIOf_no1(rs) ==
    [i \in DOMAIN rs |-> FSub(Float(100), FDiv(Float(100), rs[i]))]

\* 100 - (100 / (1 + rs))
RSIOf(rs) ==
    [i \in DOMAIN rs |->
        FSub(Float(100), FDiv(Float(100), FAdd(Float(1), rs[i])))]

calculate_indicators(df, sma, lma, p, zs) ==
    LET delta == Diff(Close(df))
    IN [SMA_short |-> RollingMean(Close(df), sma, zs),
        SMA_long  |-> RollingMean(Close(df), lma, zs),
        RSI       |-> RSIOf(RS(Gain(delta, p, zs), Loss(delta, p, zs)))]

----------------------------------------------------------------------------
\* Python values of the data-source layer.  Strings are sequences of
\* characters, so that str.lower() is computed and not assumed.

Str(chars) == [k |-> "str", v |-> chars]

Dict(f) == [k |-> "dict", v |-> f]

Bool(b) == [k |-> "bool", v |-> b]

EmptyMap == [x \in {} |-> None]

Return(v) == [k |-> "return", v |-> v]

Raise(exc) == [k |-> "raise", exc |-> exc]

UpperCase == <<"A","B","C","D","E","F","G","H","I","J","K","L","M",
               "N","O","P","Q","R","S","T","U","V","W","X","Y","Z">>

LowerCase == <<"a","b","c","d","e","f","g","h","i","j","k","l","m",
               "n","o","p","q","r","s","t","u","v","w","x","y","z">>

LowerChar(c) ==
    IF \E i \in DOMAIN UpperCase : UpperCase[i] = c
    THEN LowerCase[CHOOSE i \in DOMAIN UpperCase : UpperCase[i] = c]
    ELSE c

\* str.lower()
Lower(str) == [i \in DOMAIN str |-> LowerChar(str[i])]

yfinance == <<"y","f","i","n","a","n","c","e">>

alphavantage == <<"a","l","p","h","a","v","a","n","t","a","g","e">>

\* Python truth value of kwargs.get('api_key'): None and '' are falsy
Truthy(v) == ~(v.k = "None" \/ (v.k = "str" /\ v.v = <<>>))

\* dict.get(key, default)
DictGet(f, key, default) == IF key \in DOMAIN f THEN f[key] ELSE default

YFinanceSource == [cls |-> "YFinanceSource"]

AlphaVantageSource(api_key) == [cls |-> "AlphaVantageSource", api_key |-> api_key]

\* DataSourceFactory.create_data_source(source_type, **kwargs)
create_data_source_nokeycheck(st, kw) ==
    IF Lower(st) = yfinance THEN Return(YFinanceSource)
    ELSE IF Lower(st) = alphavantage
    THEN Return(AlphaVantageSource(DictGet(kw, "api_key", None)))
    ELSE Raise("ValueError")

create_data_source(st, kw) ==
    IF Lower(st) = yfinance THEN Return(YFinanceSource)
    ELSE IF Lower(st) = alphavantage
    THEN LET api_key == DictGet(kw, "api_key", None)
         IN IF ~Truthy(api_key) THEN Raise("ValueError")
            ELSE Return(AlphaVantageSource(api_key))
    ELSE Raise("ValueError")

\* load_config: the parsed document, or {} when the file does not exist.
\* yaml.safe_load gives None for an empty document.
load_config(cf) == IF cf.exists THEN cf.doc ELSE Dict(EmptyMap)

\* get_data_source, with the exceptions Python raises on the way
get_data_source(cf) ==
    LET config == load_config(cf)
    IN IF config.k # "dict" THEN Raise("AttributeError")
       ELSE LET source_config ==
                    DictGet(config.v, "data_source",
                            Dict([x \in {"provider"} |-> Str(yfinance)]))
            IN IF source_config.k # "dict" THEN Raise("TypeError")
               ELSE IF "provider" \notin DOMAIN source_config.v THEN Raise("KeyError")
               ELSE LET provider == source_config.v["provider"]
                        parameters == DictGet(source_config.v, "parameters", Dict(EmptyMap))
                    IN IF parameters.k # "dict" THEN Raise("TypeError")
                       ELSE IF provider.k # "str" THEN Raise("AttributeError")
                       ELSE create_data_source(provider.v, parameters.v)

\* TradingStrategy.__init__: an object, or the exception of get_data_source
TradingStrategy_init(cf) ==
    LET ds == get_data_source(cf)
    IN IF ds.k = "raise" THEN ds
       ELSE [k |-> "obj",
             default_params |-> [short_ma |-> 20, long_ma |-> 50, rsi_period |-> 14,
                                 stop_loss |-> 2, take_profit |-> 5],
             data_source |-> ds.v]

DataFrame(empty) == [k |-> "DataFrame", empty |-> empty]

\* what yf.download can do: return a frame (possibly empty) or raise
VendorOutcomes == {Return(DataFrame(FALSE)), Return(DataFrame(TRUE)),
                   Raise("ConnectionError"), Raise("KeyError")}

\* YFinanceSource.get_data: one download; an exception is re-raised wrapped
YFinanceSource_get_data(out) ==
    IF out.k = "raise" THEN Raise("Exception") ELSE Return(out.v)

\* AlphaVantageSource.get_data: the body is `pass`
AlphaVantageSource_get_data(out) == Return(None)

DataSource_get_data(ds, out) ==
    IF ds.cls = "YFinanceSource" THEN YFinanceSource_get_data(out)
    ELSE AlphaVantageSource_get_data(out)

\* YFinanceSource.validate_connection
YFinanceSource_validate_connection(out) ==
    IF out.k = "raise" THEN Return(Bool(FALSE)) ELSE Return(Bool(~out.v.empty))

\* AlphaVantageSource.validate_connection: the body is `pass`
AlphaVantageSource_validate_connection(out) == Return(None)

DataSource_validate_connection(ds, out) ==
    IF ds.cls = "YFinanceSource" THEN YFinanceSource_validate_connection(out)
    ELSE AlphaVantageSource_validate_connection(out)

\* TradingStrategy.get_data: [calls of data_source.get_data, st.error calls,
\* outcome of the fetch, outcome of the request]
TradingStrategy_get_data_retry(self, out) ==
    LET r == DataSource_get_data(self.data_source, out)
    IN IF r.k = "raise"
       THEN [calls |-> 2, errors |-> 1, fetch |-> r, result |-> Return(None)]
       ELSE [calls |-> 1, errors |-> 0, fetch |-> r, result |-> r]

TradingStrategy_get_data(self, out) ==
    LET r == DataSource_get_data(self.data_source, out)
    IN IF r.k = "raise"
       THEN [calls |-> 1, errors |-> 1, fetch |-> r, result |-> Return(None)]
       ELSE [calls |-> 1, errors |-> 0, fetch |-> r, result |-> r]

----------------------------------------------------------------------------
\* Inputs

Prices == {10 + x : x \in 0 .. PriceSpan}

PriceSeries == UNION {[0 .. (len - 1) -> Prices] : len \in 0 .. MaxLen}

Windows == 1 .. MaxWin

ProviderNames ==
    {yfinance,
     <<"Y","F","i","n","a","n","c","e">>,
     <<"Y","F","I","N","A","N","C","E">>,
     <<"y","f","i","n","a","n","c","e"," ">>,
     <<"y","a","h","o","o">>,
     alphavantage,
     <<"A","l","p","h","a","V","a","n","t","a","g","e">>,
     <<"A","L","P","H","A","V","A","N","T","A","G","E">>,
     <<"a","l","p","h","a">>,
     <<"q","u","a","n","d","l">>,
     <<>>}

KwargSets ==
    {EmptyMap,
     "api_key" :> None,
     "api_key" :> Str(<<>>),
     "api_key" :> Str(<<"k","1">>),
     "api_key" :> Str(<<"k","2">>),
     "region" :> Str(<<"u","s">>),
     ("api_key" :> Str(<<"k","1">>)) @@ ("region" :> Str(<<"u","s">>))}

SourceConfigs ==
    {None, Dict(EmptyMap), Dict("provider" :> None)}
    \cup {Dict("provider" :> Str(name)) : name \in ProviderNames}
    \cup {Dict(("provider" :> Str(name)) @@ ("parameters" :> Dict(kw))) :
              name \in {yfinance, alphavantage}, kw \in KwargSets}
    \cup {Dict(("provider" :> Str(alphavantage)) @@ ("parameters" :> None))}

Documents ==
    {None, Dict(EmptyMap), Dict("theme" :> Str(<<"d","a","r","k">>))}
    \cup {Dict("data_source" :> sc) : sc \in SourceConfigs}

ConfigFiles ==
    {[exists |-> FALSE, doc |-> None]}
    \cup {[exists |-> TRUE, doc |-> doc] : doc \in Documents}

----------------------------------------------------------------------------
\* Initial states

IdleInd ==
    /\ data = [i \in {} |-> 0]
    /\ short_ma = 20 /\ long_ma = 50 /\ rsi_period = 14
    /\ signals = None

IdleFac ==
    /\ source_type = yfinance
    /\ kwargs = EmptyMap
    /\ created = None

IdleApp ==
    /\ config_file = [exists |-> FALSE, doc |-> None]
    /\ strategy = None
    /\ requests = 0 /\ fetch_calls = 0 /\ errors = 0 /\ failed = 0
    /\ last_fetch = None /\ last_result = None /\ last_validate = None

\* calculate_indicators is applied to any price series and windows
InitInd ==
    /\ data \in PriceSeries
    /\ short_ma \in Windows /\ long_ma \in Windows /\ rsi_period \in Windows
    /\ signals = None
    /\ IdleFac /\ IdleApp

\* create_data_source is applied to any provider name and parameters
InitFac ==
    /\ source_type \in ProviderNames
    /\ kwargs \in KwargSets
    /\ created = None
    /\ IdleInd /\ IdleApp

\* the application starts with some configuration file on disk
InitApp ==
    /\ config_file \in ConfigFiles
    /\ strategy = None
    /\ requests = 0 /\ fetch_calls = 0 /\ errors = 0 /\ failed = 0
    /\ last_fetch = None /\ last_result = None /\ last_validate = None
    /\ IdleInd /\ IdleFac

----------------------------------------------------------------------------
\* Actions

CalculateIndicators ==
    /\ signals = None
    /\ \E zs \in {1, -1} :
           signals' = calculate_indicators(data, short_ma, long_ma, rsi_period, zs)
    /\ UNCHANGED <<data, short_ma, long_ma, rsi_period, facVars, appVars>>

CreateDataSource ==
    /\ created' = create_data_source(source_type, kwargs)
    /\ UNCHANGED <<source_type, kwargs, indVars, appVars>>

StrategyInit ==
    /\ strategy = None
    /\ strategy' = TradingStrategy_init(config_file)
    /\ UNCHANGED <<config_file, requests, fetch_calls, errors, failed,
                   last_fetch, last_result, last_validate, indVars, facVars>>

GetData(out) ==
    /\ strategy.k = "obj"
    /\ requests < MaxRequests
    /\ LET r == TradingStrategy_get_data(strategy, out)
       IN /\ requests' = requests + 1
          /\ fetch_calls' = fetch_calls + r.calls
          /\ errors' = errors + r.errors
          /\ failed' = failed + (IF r.fetch.k = "raise" THEN 1 ELSE 0)
          /\ last_fetch' = r.fetch
          /\ last_result' = r.result
    /\ UNCHANGED <<config_file, strategy, last_validate, indVars, facVars>>

ValidateConnection(out) ==
    /\ strategy.k = "obj"
    /\ last_validate' = DataSource_validate_connection(strategy.data_source, out)
    /\ UNCHANGED <<config_file, strategy, requests, fetch_calls, errors, failed,
                   last_fetch, last_result, indVars, facVars>>

NextInd == CalculateIndicators

NextFac == CreateDataSource

NextApp ==
    \/ StrategyInit
    \/ \E out \in VendorOutcomes : GetData(out)
    \/ \E out \in VendorOutcomes : ValidateConnection(out)

SpecInd == InitInd /\ [][NextInd]_vars

SpecFac == InitFac /\ [][NextFac]_vars

SpecApp == InitApp /\ [][NextApp]_vars

Init == InitInd \/ InitFac \/ InitApp

Next == NextInd \/ NextFac \/ NextApp

Spec == Init /\ [][Next]_vars

----------------------------------------------------------------------------
\* Properties of calculate_indicators (checked under SpecInd)

RECURSIVE SumClose(_, _, _)
SumClose(df, lo, hi) == IF hi < lo THEN 0 ELSE df[hi] + SumClose(df, lo, hi - 1)

Max0(x) == IF x > 0 THEN x ELSE 0

\* sums of max(close[j]-close[j-1], 0) and of max(close[j-1]-close[j], 0)
\* over j in lo .. hi, for lo >= 1
RECURSIVE SumGain(_, _, _)
SumGain(df, lo, hi) ==
    IF hi < lo THEN 0 ELSE Max0(df[hi] - df[hi-1]) + SumGain(df, lo, hi - 1)

RECURSIVE SumLoss(_, _, _)
SumLoss(df, lo, hi) ==
    IF hi < lo THEN 0 ELSE Max0(df[hi-1] - df[hi]) + SumLoss(df, lo, hi - 1)

Defined(col) == {i \in DOMAIN col : col[i].k # "nan"}

SMAOk(col, w) ==
    /\ DOMAIN col = DOMAIN data
    /\ \A i \in DOMAIN data :
           IF i < w - 1 THEN col[i] = NaN
           ELSE /\ col[i].k = "num"
                /\ col[i].n * w = col[i].d * SumClose(data, i - w + 1, i)
    /\ (w <= SeriesLen(data) => Cardinality(Defined(col)) = SeriesLen(data) - w + 1)

\* C1: each SMA column is null at every index i < w-1 and is the arithmetic
\* mean of close[i-w+1 .. i] at every index i >= w-1, so that for w <= n
\* exactly n-w+1 entries are defined; SMA_short and SMA_long each follow
\* their own window.
C1_SMA ==
    signals # None =>
        SMAOk(signals.SMA_short, short_ma) /\ SMAOk(signals.SMA_long, long_ma)

C1_Witness ==
    /\ signals # None
    /\ short_ma = 3 /\ long_ma = 2 /\ SeriesLen(data) = 4
    /\ data[0] = 10 /\ data[1] = 11 /\ data[2] = 12
    /\ signals.SMA_short[1] = NaN
    /\ signals.SMA_short[2] = Float(11)
    /\ signals.SMA_long[1] = Num(21, 2)

\* C2: at every index i >= p with avg_loss[i] > 0,
\* RSI[i] * (avg_gain[i] + avg_loss[i]) = 100 * avg_gain[i], the averages
\* being the unweighted means of gain and loss over i-p+1 .. i.
C2_RSIFormula ==
    signals # None =>
        \A i \in DOMAIN data :
            (i >= rsi_period /\ SumLoss(data, i - rsi_period + 1, i) > 0) =>
                LET sg == SumGain(data, i - rsi_period + 1, i)
                    sl == SumLoss(data, i - rsi_period + 1, i)
                    x == signals.RSI[i]
                IN x.k = "num" /\ x.n * (sg + sl) = 100 * sg * x.d

C2_Witness ==
    /\ signals # None
    /\ rsi_period = 2 /\ SeriesLen(data) = 4
    /\ data[0] = 10 /\ data[1] = 12 /\ data[2] = 11 /\ data[3] = 12
    /\ signals.RSI[2] = Num(200, 3)

\* C3: RSI is null at every index i < p.
C3_RSINullBeforeP ==
    signals # None =>
        \A i \in DOMAIN data : i < rsi_period => signals.RSI[i] = NaN

\* C4: at every index i >= p with avg_loss[i] = 0, RSI[i] is the number 100.
C4_RSIZeroLoss ==
    signals # None =>
        \A i \in DOMAIN data :
            (i >= rsi_period /\ SumLoss(data, i - rsi_period + 1, i) = 0) =>
                signals.RSI[i] = Float(100)

StrictlyDecreasing(df) == \A i \in DOMAIN df : i >= 1 => df[i] < df[i-1]

\* C5: on a strictly decreasing series of at least p+1 samples RSI is 0
\* wherever it is defined, and it is defined at every index i >= p.
C5_RSIDecreasing ==
    (signals # None /\ StrictlyDecreasing(data)
        /\ SeriesLen(data) >= rsi_period + 1) =>
        \A i \in DOMAIN data :
            /\ signals.RSI[i].k # "nan" =>
                   (signals.RSI[i].k = "num" /\ signals.RSI[i].n = 0)
            /\ i >= rsi_period => signals.RSI[i].k # "nan"

C5_Witness ==
    /\ signals # None
    /\ rsi_period = 2 /\ SeriesLen(data) = 3
    /\ data[0] = 12 /\ data[1] = 11 /\ data[2] = 10
    /\ signals.RSI[0] = NaN
    /\ signals.RSI[1] = Zero(1) /\ signals.RSI[2] = Zero(1)

----------------------------------------------------------------------------
\* Properties of the factory (checked under SpecFac)

IsValueError(r) == r.k = "raise" /\ r.exc = "ValueError"

ReturnsClass(r, cls) == r.k = "return" /\ r.v.cls = cls

\* C6 as stated: the factory fails for every name other than the two names
\* of the dispatch table and for the paid-vendor name without an api_key;
\* it returns a YFinanceSource only for the free-vendor name and an
\* AlphaVantageSource holding the key only for the paid-vendor name with a key.
C6_FactoryExactNames ==
    created.k # "None" =>
        /\ source_type \notin {yfinance, alphavantage} => IsValueError(created)
        /\ (source_type = alphavantage /\ "api_key" \notin DOMAIN kwargs)
               => IsValueError(created)
        /\ ReturnsClass(created, "YFinanceSource") => source_type = yfinance
        /\ ReturnsClass(created, "AlphaVantageSource") =>
               /\ source_type = alphavantage
               /\ "api_key" \in DOMAIN kwargs
               /\ created.v.api_key = kwargs["api_key"]

\* C6 amended: the same with provider names compared after lower-casing.
C6_FactoryLowerCasedNames ==
    created.k # "None" =>
        /\ Lower(source_type) \notin {yfinance, alphavantage} => IsValueError(created)
        /\ (Lower(source_type) = alphavantage /\ "api_key" \notin DOMAIN kwargs)
               => IsValueError(created)
        /\ ReturnsClass(created, "YFinanceSource") => Lower(source_type) = yfinance
        /\ ReturnsClass(created, "AlphaVantageSource") =>
               /\ Lower(source_type) = alphavantage
               /\ "api_key" \in DOMAIN kwargs
               /\ created.v.api_key = kwargs["api_key"]

C6_Witness ==
    /\ source_type # alphavantage
    /\ Lower(source_type) = alphavantage
    /\ "api_key" \notin DOMAIN kwargs
    /\ IsValueError(created)

----------------------------------------------------------------------------
\* Properties of the application (checked under SpecApp)

NoDataSourceKey(cf) ==
    \/ ~cf.exists
    \/ cf.doc.k = "None"
    \/ cf.doc.k = "dict" /\ "data_source" \notin DOMAIN cf.doc.v

\* C7: when the configuration file is missing, is an empty document or has
\* no data_source key, get_data_source returns the yfinance source.
C7_DefaultSource ==
    (strategy.k # "None" /\ NoDataSourceKey(config_file)) =>
        (strategy.k = "obj" /\ strategy.data_source = YFinanceSource)

UsesAlphaVantage ==
    strategy.k = "obj" /\ strategy.data_source.cls = "AlphaVantageSource"

\* C8: get_data on an AlphaVantageSource returns bars or raises; it never
\* returns an empty or absent result.
C8_PaidFetchNotSilent ==
    (UsesAlphaVantage /\ last_fetch.k # "None") =>
        \/ last_fetch.k = "raise"
        \/ last_fetch.v.k = "DataFrame" /\ ~last_fetch.v.empty

\* C9: validate_connection of either data source returns a boolean and
\* never raises.
C9_ValidateReturnsBool ==
    last_validate.k # "None" =>
        (last_validate.k = "return" /\ last_validate.v.k = "bool")

\* C10: every get_data request calls the data source's fetch exactly once;
\* when the fetch raises, the request reports one error and returns None;
\* otherwise it returns what the fetch returned and reports nothing; the
\* strategy object (data source and default parameters) is left unchanged.
C10_OneFetchPerRequest ==
    [][requests' # requests =>
          /\ requests' = requests + 1
          /\ fetch_calls' = fetch_calls + 1
          /\ strategy' = strategy
          /\ IF last_fetch'.k = "raise"
             THEN last_result' = Return(None) /\ errors' = errors + 1
             ELSE last_result' = last_fetch' /\ errors' = errors]_vars

C10_Witness ==
    /\ requests = MaxRequests /\ fetch_calls = MaxRequests
    /\ failed >= 1 /\ errors = failed
    /\ last_result = Return(DataFrame(FALSE))

====
